---- MODULE Spec2Model ----
(***************************************************************************)
(* TheHand: voice-activated dictation front-end.                           *)
(*                                                                         *)
(* Model of the audio capture / voice-activity-detection engine            *)
(* (src/src/audio.rs), the application state container (src/src/state.rs)  *)
(* and the orchestrating main loop (src/src/main.rs).                      *)
(*                                                                         *)
(* Units.  Sample amplitudes and loudness values are hundredths of full    *)
(* scale (60 is 0.6).  The monotonic clock `now` counts whole seconds;     *)
(* durations of the configuration are tenths of a second (10 is 1.0 s).    *)
(* The wall-clock second used to name an utterance file advances with the  *)
(* monotonic clock.  Several audio blocks may be processed within the same *)
(* clock reading.                                                          *)
(***************************************************************************)
EXTENDS Integers, Sequences, FiniteSets, TLC

VARIABLES
    now,            \* the clock read by Instant::now() and SystemTime::now()
    state,          \* Arc<Mutex<CaptureState>>: the Segmenter's fields
    lock,           \* holder of the Mutex around CaptureState
    channel,        \* events sent on event_tx and not yet received from event_rx
    files,          \* the temporary directory: path -> i16 samples of the WAV file
    utt,            \* history: the blocks processed since voice onset
    quiet_since,    \* history: when the current run of quiet blocks began
    example_pos,    \* history: progress through the worked example of blocks
    ended,          \* history: how the latest Segmenter call left Recording
    app,            \* AppStateContainer
    pending_transcription,  \* main_loop's Option<PathBuf>
    pc,             \* where the main thread is in main_loop
    audio_path,     \* main_loop: the path taken from pending_transcription
    text,           \* main_loop: the text transcribe returned
    stderr,         \* the number of lines err_fn has printed to standard error
    added,          \* history, kept in SpecHistory: the entries added, oldest first
    cancel_checked  \* history: the cancel key found an utterance in progress,
                    \* which is in progress still and not yet cancelled

capture_vars ==
    <<now, state, lock, channel, files, utt, quiet_since, example_pos, ended>>

app_vars == <<app, pending_transcription, pc, audio_path, text>>

log_vars == <<stderr, added, cancel_checked>>

vars == <<capture_vars, app_vars, log_vars>>

----------------------------------------------------------------------------
(* Bounds of the model.                                                    *)

MaxTicks == 4       \* the clock stops advancing after this many seconds
MaxBlocks == 4      \* an utterance in progress holds no more blocks than this
MaxBacklog == 0     \* a block is delivered only if no more events than this are queued
MaxFiles == 1       \* an utterance is not saved if more files than this would exist

(* Program constants.                                                      *)

I16_MAX == 32767

----------------------------------------------------------------------------
(* Option<T>.                                                              *)

None == <<>>
Some(x) == <<x>>
is_none(o) == o = None
unwrap(o) == o[1]

(* The audio blocks the device may deliver: an empty block (loudness 0.0), *)
(* blocks of loudness 0.05 and 0.10, and a loud block (0.60).              *)
Blocks == { <<>>, <<5>>, <<10>>, <<-60>> }

(* The configurations the Segmenter may be constructed with;               *)
(* silence_threshold < voice_threshold as Config::validate requires.       *)
(* Under thresholds 0.5 and 0.1 the block of loudness 0.10 sits exactly at *)
(* the silence threshold; under 0.1 and 0.05 it sits exactly at the voice  *)
(* threshold and the block of loudness 0.05 at the silence threshold.      *)
Configs ==
    { [voice_threshold |-> 50, silence_threshold |-> 10,
       silence_duration |-> 10, min_speech_duration |-> 2],
      [voice_threshold |-> 10, silence_threshold |-> 5,
       silence_duration |-> 10, min_speech_duration |-> 30],
      [voice_threshold |-> 50, silence_threshold |-> 10,
       silence_duration |-> 0, min_speech_duration |-> 0] }

Paths == 0..(MaxTicks + 1)
(* A path holds no file, or a file with its samples.                       *)
NoFile == None

----------------------------------------------------------------------------
(* AudioEvent                                                              *)

Level(rms) == [type |-> "Level", arg |-> rms]
VoiceDetected == [type |-> "VoiceDetected", arg |-> 0]
RecordingStarted == [type |-> "RecordingStarted", arg |-> 0]
RecordingStopped(path) == [type |-> "RecordingStopped", arg |-> path]
SilenceDetected == [type |-> "SilenceDetected", arg |-> 0]
Error == [type |-> "Error", arg |-> 0]

----------------------------------------------------------------------------
(* Level meter.                                                            *)

RECURSIVE SumSq(_)
SumSq(samples) ==
    IF samples = <<>> THEN 0
    ELSE Head(samples) * Head(samples) + SumSq(Tail(samples))

(* The square root in hundredths, rounded down: the greatest r in lo..hi   *)
(* with r * r <= x, found by bisection.                                    *)
RECURSIVE sqrt_between(_, _, _)
sqrt_between(x, lo, hi) ==
    IF lo >= hi THEN lo
    ELSE LET mid == (lo + hi + 1) \div 2
         IN  IF mid * mid <= x THEN sqrt_between(x, mid, hi)
             ELSE sqrt_between(x, lo, mid - 1)

sqrt(x) == sqrt_between(x, 0, 100)

calculate_rms(samples) ==
    IF samples = <<>> THEN 0
    ELSE sqrt(SumSq(samples) \div Len(samples))

----------------------------------------------------------------------------
(* CaptureState                                                            *)

CaptureState_new(cfg) ==
    [recording |-> FALSE,
     buffer |-> <<>>,
     silence_start |-> None,
     recording_start |-> None,
     voice_threshold |-> cfg.voice_threshold,
     silence_threshold |-> cfg.silence_threshold,
     silence_duration |-> cfg.silence_duration,
     min_speech_duration |-> cfg.min_speech_duration]

(* Instant::elapsed().as_secs_f32(), in tenths of a second.                *)
elapsed(start, t) == (t - start) * 10

(* (sample * i16::MAX as f32) as i16: truncation toward zero, saturating.  *)
to_i16(sample) ==
    LET scaled == IF sample >= 0 THEN (sample * I16_MAX) \div 100
                  ELSE -(((-sample) * I16_MAX) \div 100)
    IN  IF scaled > I16_MAX THEN I16_MAX
        ELSE IF scaled < -I16_MAX - 1 THEN -I16_MAX - 1
        ELSE scaled

(* save_wav: the file named after the wall-clock second is created (or     *)
(* truncated) and receives the buffer as 16-bit samples; `ok` is FALSE     *)
(* when the WAV writer cannot be created.  The result is the Result<path>  *)
(* and the file system afterwards.                                         *)
save_wav(self, fs, t, ok) ==
    LET path == t
    IN  IF ok
        THEN [result |-> Some(path),
              fs |-> [fs EXCEPT ![path] =
                         Some([i \in 1..Len(self.buffer) |-> to_i16(self.buffer[i])])]]
        ELSE [result |-> None, fs |-> fs]

(* Mutant: cancel_recording that leaves the two timers as they are.        *)
cancel_recording_keeps_timers(self) ==
    [self EXCEPT !.recording = FALSE,
                 !.buffer = <<>>]

(* Mutant: cancel_recording without buffer.clear().                        *)
cancel_recording_keeps_buffer(self) ==
    [self EXCEPT !.recording = FALSE,
                 !.silence_start = None,
                 !.recording_start = None]

cancel_recording(self) ==
    [self EXCEPT !.recording = FALSE,
                 !.buffer = <<>>,
                 !.silence_start = None,
                 !.recording_start = None]

(* The result of a &mut self method that sends events: the state after,    *)
(* the events sent on event_tx in order, and the file system after.        *)
Outcome(self, sent, fs) == [self |-> self, sent |-> sent, fs |-> fs]

stop_recording(self, fs, t, ok) ==
    IF ~self.recording THEN Outcome(self, <<>>, fs)
    ELSE LET saved == save_wav(self, fs, t, ok)
             sent == IF ~is_none(saved.result)
                     THEN <<RecordingStopped(unwrap(saved.result))>>
                     ELSE <<Error>>
         IN  Outcome([self EXCEPT !.recording = FALSE,
                                  !.buffer = <<>>,
                                  !.silence_start = None,
                                  !.recording_start = None],
                     sent, saved.fs)

(* The comparisons and updates of process_samples.                         *)

voice_detected(self, rms) == rms > self.voice_threshold

(* Mutant: a block exactly at the silence threshold counted as silence.    *)
silence_detected_at_threshold(self, rms) == rms <= self.silence_threshold

silence_detected(self, rms) == rms < self.silence_threshold

(* Mutant: the onset without recording_start = Some(Instant::now()).       *)
start_recording_without_start(self, samples, t) ==
    [self EXCEPT !.recording = TRUE,
                 !.silence_start = None,
                 !.buffer = samples]

start_recording(self, samples, t) ==
    [self EXCEPT !.recording = TRUE,
                 !.recording_start = Some(t),
                 !.silence_start = None,
                 !.buffer = samples]

(* Mutant: the two sends of the onset in the other order.                  *)
start_events_swapped == <<RecordingStarted, VoiceDetected>>

start_events == <<VoiceDetected, RecordingStarted>>

(* Mutant: the block replaces the buffer instead of extending it.          *)
extend_buffer_replacing(self, samples) == [self EXCEPT !.buffer = samples]

extend_buffer(self, samples) ==
    [self EXCEPT !.buffer = self.buffer \o samples]

(* Mutant: SilenceDetected is sent but silence_start stays unset.          *)
start_silence_skipped(self, t) == self

start_silence(self, t) == [self EXCEPT !.silence_start = Some(t)]

(* Mutant: a voice block that leaves silence_start as it is.               *)
reset_silence_skipped(self) == self

reset_silence(self) == [self EXCEPT !.silence_start = None]

(* Mutant: the grace period never runs out.                                *)
silence_expired_never(self, t) == FALSE

(* Mutant: the grace period compared with > instead of >=.                 *)
silence_expired_strictly(self, t) ==
    elapsed(unwrap(self.silence_start), t) > self.silence_duration

silence_expired(self, t) ==
    elapsed(unwrap(self.silence_start), t) >= self.silence_duration

(* Mutant: the minimum speech duration compared with > instead of >=.      *)
speech_long_enough_strictly(self, t) ==
    elapsed(unwrap(self.recording_start), t) > self.min_speech_duration

(* Mutant: every recording counts as long enough.                          *)
speech_always_long_enough(self, t) == TRUE

speech_long_enough(self, t) ==
    elapsed(unwrap(self.recording_start), t) >= self.min_speech_duration

process_samples(self, fs, samples, t, ok) ==
    LET rms == calculate_rms(samples)
        level == <<Level(rms)>>
    IN  IF ~self.recording
        THEN IF voice_detected(self, rms)
             THEN Outcome(start_recording(self, samples, t),
                          level \o start_events, fs)
             ELSE Outcome(self, level, fs)
        ELSE LET appended == extend_buffer(self, samples)
             IN  IF silence_detected(self, rms)
                 THEN IF is_none(self.silence_start)
                      THEN Outcome(start_silence(appended, t),
                                   level \o <<SilenceDetected>>, fs)
                      ELSE IF silence_expired(self, t)
                           THEN IF is_none(self.recording_start)
                                THEN Outcome(appended, level, fs)
                                ELSE IF speech_long_enough(self, t)
                                     THEN LET r == stop_recording(appended, fs, t, ok)
                                          IN  Outcome(r.self, level \o r.sent, r.fs)
                                     ELSE Outcome(cancel_recording(appended), level, fs)
                           ELSE Outcome(appended, level, fs)
                 ELSE Outcome(reset_silence(appended), level, fs)

----------------------------------------------------------------------------
(* History variables.                                                      *)

(* The blocks of the utterance in progress: those delivered since the      *)
(* voice-onset block, that one included; none while Silent.                *)
UttAfter(before, after, samples) ==
    IF ~after.recording THEN <<>>
    ELSE IF ~before.recording THEN <<samples>>
    ELSE Append(utt, samples)

(* When the contiguous run of quiet blocks (loudness under the silence     *)
(* threshold) that ends at the latest block of the recording began.        *)
QuietSinceAfter(before, after, samples, t) ==
    IF ~after.recording THEN None
    ELSE IF ~before.recording THEN None
    ELSE IF calculate_rms(samples) >= before.silence_threshold THEN None
    ELSE IF quiet_since = None THEN Some(t)
    ELSE quiet_since

(* How a call left Recording: by an utterance saved, by a save that        *)
(* failed, by a discard, by the client's cancel; "no" when it did not.     *)
EndedAfter(before, after, sent) ==
    IF ~(before.recording /\ ~after.recording) THEN "no"
    ELSE IF sent = <<>> THEN "cancelled"
    ELSE IF sent[Len(sent)].type = "RecordingStopped" THEN "stopped"
    ELSE IF sent[Len(sent)].type = "Error" THEN "failed"
    ELSE "discarded"

(* The worked example: block loudness 0.0, 0.6, 0.6, 0.05, 0.05, one       *)
(* second apart from time 0, under thresholds 0.5 and 0.1, a silence       *)
(* duration of 1.0 s and a minimum speech duration of 0.2 s.               *)
ExampleLoudness == <<0, 60, 60, 5, 5>>

ExampleConfig ==
    [voice_threshold |-> 50, silence_threshold |-> 10,
     silence_duration |-> 10, min_speech_duration |-> 2]

Diverged == 0 - 1

(* example_pos = k: the blocks processed so far are exactly the first k    *)
(* blocks of the example; Diverged once they are not.                      *)
ExamplePosAfter(samples, t) ==
    IF /\ example_pos \in 0..(Len(ExampleLoudness) - 1)
       /\ state = CaptureState_new(ExampleConfig) \/ example_pos > 0
       /\ calculate_rms(samples) = ExampleLoudness[example_pos + 1]
       /\ t = example_pos
    THEN example_pos + 1
    ELSE Diverged

----------------------------------------------------------------------------
(* The audio thread: the input callback of build_stream.                   *)

(* Mutant: the callback enters without waiting for the lock to be free.    *)
CallbackLock_without_waiting ==
    /\ Len(utt) < MaxBlocks
    /\ Len(channel) <= MaxBacklog
    /\ lock' = "audio"
    /\ UNCHANGED <<now, state, channel, files, utt, quiet_since, example_pos, ended>>
    /\ UNCHANGED <<app_vars, log_vars>>

(* The callback is invoked with a block and takes the lock.                *)
CallbackLock ==
    /\ lock = "free"
    /\ Len(utt) < MaxBlocks
    /\ Len(channel) <= MaxBacklog
    /\ lock' = "audio"
    /\ UNCHANGED <<now, state, channel, files, utt, quiet_since, example_pos, ended>>
    /\ UNCHANGED <<app_vars, log_vars>>

(* state.process_samples(data) under the lock, which the guard then drops. *)
CallbackProcess(samples, ok) ==
    /\ lock = "audio"
    /\ Len(utt) < MaxBlocks
    /\ Len(channel) <= MaxBacklog
    /\ LET r == process_samples(state, files, samples, now, ok)
       IN  /\ Cardinality({p \in Paths : r.fs[p] # NoFile}) <= MaxFiles
           /\ state' = r.self
           /\ channel' = channel \o r.sent
           /\ files' = r.fs
           /\ utt' = UttAfter(state, r.self, samples)
           /\ quiet_since' = QuietSinceAfter(state, r.self, samples, now)
           /\ ended' = EndedAfter(state, r.self, r.sent)
           /\ cancel_checked' = (cancel_checked /\ r.self.recording)
    /\ example_pos' = ExamplePosAfter(samples, now)
    /\ lock' = "free"
    /\ UNCHANGED now
    /\ UNCHANGED <<app_vars, stderr, added>>

(* Time passes.                                                            *)
Tick ==
    /\ now < MaxTicks
    /\ now' = now + 1
    /\ UNCHANGED <<state, lock, channel, files, utt, quiet_since, example_pos, ended>>
    /\ UNCHANGED <<app_vars, log_vars>>

----------------------------------------------------------------------------
(* AudioCapture: the methods the main thread calls.                        *)

(* self.state.lock() on the main thread.                                   *)
AudioCapture_lock ==
    /\ lock = "free"
    /\ lock' = "main"
    /\ UNCHANGED <<now, state, channel, files, utt, quiet_since, example_pos, ended>>

(* cancel_recording, once the lock is held.                                *)
AudioCapture_cancel_recording ==
    /\ lock = "main"
    /\ state' = cancel_recording(state)
    /\ utt' = <<>>
    /\ quiet_since' = None
    /\ example_pos' = Diverged
    /\ ended' = EndedAfter(state, cancel_recording(state), <<>>)
    /\ lock' = "free"
    /\ UNCHANGED <<now, channel, files>>

(* is_recording, once the lock is held: the flag read.                     *)
AudioCapture_is_recording(result) ==
    /\ lock = "main"
    /\ result = state.recording
    /\ lock' = "free"
    /\ UNCHANGED <<now, state, channel, files, utt, quiet_since, example_pos, ended>>

(* Mutant: poll_event that hands out the newest event of the queue.        *)
poll_event_newest ==
    IF channel = <<>> THEN None ELSE Some(channel[Len(channel)])

(* poll_event: event_rx.try_recv().ok()                                    *)
poll_event == IF channel = <<>> THEN None ELSE Some(Head(channel))

AudioCapture_poll_event(result) ==
    /\ result = poll_event
    /\ channel' = IF channel = <<>> THEN channel ELSE Tail(channel)
    /\ UNCHANGED <<now, state, lock, utt, quiet_since, example_pos, ended>>

(* transcribe::cleanup_audio_file: the file is removed if it exists; `ok`  *)
(* is FALSE when remove_file fails.                                        *)
cleanup_audio_file(fs, path, ok) ==
    IF fs[path] # NoFile /\ ok THEN [fs EXCEPT ![path] = NoFile] ELSE fs

----------------------------------------------------------------------------
(* AppState and AppStateContainer (state.rs).                              *)

AppState == {"Idle", "Recording", "Transcribing", "Typing", "Muted"}

AppStateContainer_new(history_limit) ==
    [state |-> "Idle",
     history |-> <<>>,
     current_text |-> <<>>,
     audio_level |-> 0,
     error_message |-> None,
     should_quit |-> FALSE,
     history_limit |-> history_limit]

(* Mutant: the eviction takes the newest entry, pop_front.                 *)
RECURSIVE pop_front_while_over(_, _)
pop_front_while_over(history, limit) ==
    IF Len(history) > limit
    THEN pop_front_while_over(Tail(history), limit)
    ELSE history

RECURSIVE pop_back_while_over(_, _)
pop_back_while_over(history, limit) ==
    IF Len(history) > limit
    THEN pop_back_while_over(SubSeq(history, 1, Len(history) - 1), limit)
    ELSE history

(* Mutant: add_to_history that adds nothing.                               *)
add_to_history_skipped(self, entry) == self

add_to_history(self, entry) ==
    [self EXCEPT !.history =
        pop_back_while_over(<<entry>> \o self.history, self.history_limit)]

set_state(self, new_state) ==
    [self EXCEPT !.state = new_state,
                 !.error_message =
                     IF new_state # "Idle" THEN None ELSE self.error_message]

toggle_mute(self) ==
    [self EXCEPT !.state = IF self.state = "Muted" THEN "Idle" ELSE "Muted"]

set_error(self, message) == [self EXCEPT !.error_message = Some(message)]

clear_error(self) == [self EXCEPT !.error_message = None]

(* level.clamp(0.0, 1.0)                                                   *)
update_audio_level(self, level) ==
    [self EXCEPT !.audio_level =
        IF level < 0 THEN 0 ELSE IF level > 100 THEN 100 ELSE level]

set_current_text(self, t) == [self EXCEPT !.current_text = t]

clear_current_text(self) == [self EXCEPT !.current_text = <<>>]

----------------------------------------------------------------------------
(* The collaborators (transcribe.rs, typing.rs).                           *)

(* transcribe: whisper reads the file at the path; the text it prints is   *)
(* modelled as the samples it read.  `ok` is FALSE when the binary fails   *)
(* or prints nothing; it cannot succeed on a file that does not exist.     *)
transcribe(fs, path, ok) ==
    IF ok /\ fs[path] # NoFile THEN Some(unwrap(fs[path])) ELSE None

(* type_text has no failing path: it returns Ok(()) for every text.        *)
type_text(t) == TRUE

----------------------------------------------------------------------------
(* main_loop (main.rs).                                                    *)

Keys == {"none", "q", "m", "c"}

(* Mutant: the mute key also resets the Segmenter.                         *)
HandleKey_mute_resets(key) ==
    /\ pc = "draw"
    /\ \/ /\ key = "none"
          /\ pc' = "poll"
          /\ app' = app
          /\ state' = state
       \/ /\ key = "q"
          /\ app' = [app EXCEPT !.should_quit = TRUE]
          /\ pc' = "exit"
          /\ state' = state
       \/ /\ key = "m"
          /\ app' = toggle_mute(app)
          /\ pc' = "poll"
          /\ state' = cancel_recording(state)
       \/ /\ key = "c"
          /\ app' = app
          /\ pc' = "is_recording"
          /\ state' = state
    /\ UNCHANGED <<pending_transcription, audio_path, text>>
    /\ UNCHANGED <<now, lock, channel, files, utt, quiet_since, example_pos, ended>>
    /\ UNCHANGED log_vars

(* The event loop body from the top: draw, then the key read, if any.      *)
HandleKey(key) ==
    /\ pc = "draw"
    /\ \/ /\ key = "none"
          /\ pc' = "poll"
          /\ app' = app
       \/ /\ key = "q"
          /\ app' = [app EXCEPT !.should_quit = TRUE]
          /\ pc' = "exit"
       \/ /\ key = "m"
          /\ app' = toggle_mute(app)
          /\ pc' = "poll"
       \/ /\ key = "c"
          /\ app' = app
          /\ pc' = "is_recording"
    /\ UNCHANGED <<pending_transcription, audio_path, text>>
    /\ UNCHANGED <<capture_vars, log_vars>>

(* audio.is_recording(): the lock is taken, ...                            *)
CancelKeyLock ==
    /\ pc \in {"is_recording", "cancel"}
    /\ AudioCapture_lock
    /\ pc' = IF pc = "is_recording" THEN "is_recording_locked" ELSE "cancel_locked"
    /\ UNCHANGED <<app, pending_transcription, audio_path, text, log_vars>>

(* ... the flag is read and the lock released.                             *)
CancelKeyCheck ==
    /\ pc = "is_recording_locked"
    /\ \E result \in BOOLEAN :
          /\ AudioCapture_is_recording(result)
          /\ pc' = IF result THEN "cancel" ELSE "poll"
          /\ cancel_checked' = result
    /\ UNCHANGED <<app, pending_transcription, audio_path, text, stderr, added>>

(* audio.cancel_recording() under the lock taken anew, then                *)
(* app.set_state(AppState::Idle) and app.clear_current_text().             *)
CancelKeyCancel ==
    /\ pc = "cancel_locked"
    /\ AudioCapture_cancel_recording
    /\ app' = clear_current_text(set_state(app, "Idle"))
    /\ pc' = "poll"
    /\ cancel_checked' = FALSE
    /\ UNCHANGED <<pending_transcription, audio_path, text, stderr, added>>

(* One arm of the match on a polled event.                                 *)
handle_event(self, event) ==
    IF event.type = "Level"
    THEN IF self.state # "Muted" THEN update_audio_level(self, event.arg) ELSE self
    ELSE IF event.type = "VoiceDetected"
    THEN IF self.state # "Muted" THEN clear_error(self) ELSE self
    ELSE IF event.type = "RecordingStarted"
    THEN IF self.state # "Muted"
         THEN clear_current_text(set_state(self, "Recording")) ELSE self
    ELSE IF event.type = "RecordingStopped"
    THEN IF self.state # "Muted" THEN set_state(self, "Transcribing") ELSE self
    ELSE IF event.type = "SilenceDetected"
    THEN self
    ELSE set_state(set_error(self, "Failed to save audio"), "Idle")

(* One turn of `while let Some(event) = audio.poll_event()`; when the      *)
(* queue is empty the loop goes on to `pending_transcription.take()`, and  *)
(* back to the top if that is None.                                        *)
PollEvent ==
    /\ pc = "poll"
    /\ \E result \in {poll_event} :
          /\ AudioCapture_poll_event(result)
          /\ IF is_none(result)
             THEN /\ pc' = IF is_none(pending_transcription)
                           THEN "draw" ELSE "transcribe"
                  /\ UNCHANGED <<app, pending_transcription>>
             ELSE /\ pc' = "poll"
                  /\ app' = handle_event(app, unwrap(result))
                  /\ pending_transcription' =
                        IF unwrap(result).type = "RecordingStopped"
                           /\ app.state # "Muted"
                        THEN Some(unwrap(result).arg)
                        ELSE pending_transcription
    /\ UNCHANGED <<files, audio_path, text, log_vars>>

(* `if let Some(audio_path) = pending_transcription.take()`, and the call  *)
(* of transcribe::transcribe, which blocks the loop until it returns.      *)
(* Mutant: a failed transcription leaves the state as it is.               *)
Transcribe_failure_keeps_state(ok) ==
    /\ pc = "transcribe"
    /\ LET result == transcribe(files, unwrap(pending_transcription), ok)
       IN  /\ pending_transcription' = None
           /\ audio_path' = pending_transcription
           /\ IF ~is_none(result)
              THEN /\ app' = set_state(set_current_text(app, unwrap(result)),
                                       "Typing")
                   /\ text' = result
                   /\ pc' = "typing"
              ELSE /\ app' = set_error(app, "Transcription failed")
                   /\ text' = None
                   /\ pc' = "cleanup"
    /\ UNCHANGED <<capture_vars, log_vars>>

Transcribe(ok) ==
    /\ pc = "transcribe"
    /\ LET result == transcribe(files, unwrap(pending_transcription), ok)
       IN  /\ pending_transcription' = None
           /\ audio_path' = pending_transcription
           /\ IF ~is_none(result)
              THEN /\ app' = set_state(set_current_text(app, unwrap(result)),
                                       "Typing")
                   /\ text' = result
                   /\ pc' = "typing"
              ELSE /\ app' = set_state(set_error(app, "Transcription failed"),
                                       "Idle")
                   /\ text' = None
                   /\ pc' = "cleanup"
    /\ UNCHANGED <<capture_vars, log_vars>>

(* typing::type_text, then the history, and back to Idle.                  *)
TypeText ==
    /\ pc = "typing"
    /\ LET typed == IF ~type_text(unwrap(text))
                    THEN set_error(app, "Failed to type text")
                    ELSE add_to_history(app, unwrap(text))
       IN  app' = clear_current_text(set_state(typed, "Idle"))
    /\ text' = None
    /\ pc' = "cleanup"
    /\ UNCHANGED <<pending_transcription, audio_path>>
    /\ UNCHANGED <<capture_vars, log_vars>>

(* `let _ = transcribe::cleanup_audio_file(&audio_path)`                   *)
Cleanup(ok) ==
    /\ pc = "cleanup"
    /\ files' = cleanup_audio_file(files, unwrap(audio_path), ok)
    /\ audio_path' = None
    /\ pc' = "draw"
    /\ UNCHANGED <<app, pending_transcription, text, log_vars>>
    /\ UNCHANGED <<now, state, lock, channel, utt, quiet_since, example_pos, ended>>

----------------------------------------------------------------------------
(* The application: the audio thread beside main_loop.                     *)

AppUi == [history_limit |-> 1]     \* config.ui of the runs explored

MaxAppTicks == 1    \* the clock stops advancing after this many seconds
MaxAppBlocks == 3   \* an utterance in progress holds no more blocks than this
MaxStreamErrors == 1    \* the device reports no more stream errors than this

(* The blocks and the configuration of the runs explored: a quiet and a    *)
(* loud block; an utterance ends at the second quiet block in a row.       *)
AppBlocks == { <<5>>, <<-60>> }

AppConfig ==
    [voice_threshold |-> 50, silence_threshold |-> 10,
     silence_duration |-> 0, min_speech_duration |-> 0]

InitMain ==
    /\ app = AppStateContainer_new(AppUi.history_limit)
    /\ pending_transcription = None
    /\ pc = "draw"
    /\ audio_path = None
    /\ text = None
    /\ stderr = 0
    /\ cancel_checked = FALSE
    /\ added = <<>>

InitAudio(configs) ==
    /\ now = 0
    /\ \E cfg \in configs : state = CaptureState_new(cfg)
    /\ lock = "free"
    /\ channel = <<>>
    /\ files = [p \in Paths |-> NoFile]
    /\ utt = <<>>
    /\ quiet_since = None
    /\ example_pos = 0
    /\ ended = "no"

Init == InitAudio({AppConfig}) /\ InitMain

(* The stream, and the clock that matters to it, run until run_app        *)
(* returns and drops the AudioCapture.                                     *)
AppTick == pc # "exit" /\ now < MaxAppTicks /\ Tick

AppCallbackLock == pc # "exit" /\ Len(utt) < MaxAppBlocks /\ CallbackLock

AppCallbackProcess(samples, ok) ==
    /\ Len(utt) < MaxAppBlocks
    /\ CallbackProcess(samples, ok)

(* The device reports a stream error: cpal calls err_fn, which prints one  *)
(* line to standard error and does nothing else.                           *)
err_fn ==
    /\ stderr < MaxStreamErrors
    /\ stderr' = stderr + 1
    /\ UNCHANGED <<capture_vars, app_vars, added, cancel_checked>>

Next ==
    \/ AppTick
    \/ AppCallbackLock
    \/ \E samples \in AppBlocks, ok \in BOOLEAN : AppCallbackProcess(samples, ok)
    \/ \E key \in Keys : HandleKey(key)
    \/ CancelKeyLock
    \/ CancelKeyCheck
    \/ CancelKeyCancel
    \/ PollEvent
    \/ \E ok \in BOOLEAN : Transcribe(ok)
    \/ TypeText
    \/ \E ok \in BOOLEAN : Cleanup(ok)

Spec == Init /\ [][Next]_vars

(* Scheduling.  A callback that holds the lock processes its block and     *)
(* returns; the main thread, once it holds the lock, reads or resets and   *)
(* lets go.  The callback holds the lock for one block at a time and the   *)
(* lock is free until the next block arrives, so a main thread blocked in  *)
(* lock() finds it free again and again and gets it in the end.            *)
Fairness ==
    /\ WF_vars(\E samples \in AppBlocks, ok \in BOOLEAN :
                  AppCallbackProcess(samples, ok))
    /\ WF_vars(CancelKeyCheck)
    /\ WF_vars(CancelKeyCancel)
    /\ SF_vars(CancelKeyLock)

SpecFair == Spec /\ Fairness

(* The loop keeps running: the main thread takes its next step whenever it *)
(* can, and a callback that holds the lock returns.                        *)
MainThread ==
    \/ \E key \in Keys : HandleKey(key)
    \/ CancelKeyLock
    \/ CancelKeyCheck
    \/ CancelKeyCancel
    \/ PollEvent
    \/ \E ok \in BOOLEAN : Transcribe(ok)
    \/ TypeText
    \/ \E ok \in BOOLEAN : Cleanup(ok)

FairnessLoop ==
    /\ WF_vars(MainThread)
    /\ WF_vars(\E samples \in AppBlocks, ok \in BOOLEAN :
                  AppCallbackProcess(samples, ok))

SpecLoop == Spec /\ FairnessLoop

----------------------------------------------------------------------------
(* The Capture Engine under a client that calls its methods at any time:   *)
(* the callback delivers any block; the main thread may cancel, ask        *)
(* is_recording and poll at every moment, and it removes an utterance's    *)
(* file when it receives the RecordingStopped that names it.               *)

ClientLock == AudioCapture_lock /\ UNCHANGED <<app_vars, log_vars>>

ClientCancel == AudioCapture_cancel_recording /\ UNCHANGED <<app_vars, log_vars>>

ClientIsRecording ==
    /\ \E result \in BOOLEAN : AudioCapture_is_recording(result)
    /\ UNCHANGED <<app_vars, log_vars>>

ClientPoll ==
    /\ channel # <<>>
    /\ \E result \in {poll_event} :
          /\ AudioCapture_poll_event(result)
          /\ files' = IF unwrap(result).type = "RecordingStopped"
                      THEN cleanup_audio_file(files, unwrap(result).arg, TRUE)
                      ELSE files
    /\ UNCHANGED <<app_vars, log_vars>>

InitCapture == InitAudio(Configs) /\ InitMain

NextCapture ==
    \/ Tick
    \/ CallbackLock
    \/ \E samples \in Blocks, ok \in BOOLEAN : CallbackProcess(samples, ok)
    \/ ClientLock
    \/ ClientCancel
    \/ ClientIsRecording
    \/ ClientPoll

SpecCapture == InitCapture /\ [][NextCapture]_vars

(* The device as a periodic source: while an utterance is recorded its     *)
(* blocks come one per tick, the k-th block after the onset one at k ticks *)
(* after it, and speech gives way to quiet blocks.  Every silence_duration *)
(* of Configs is at most one period, so that two quiet blocks in a row end *)
(* a recording; room for them is kept within MaxBlocks and MaxTicks.       *)
GraceBlocks == 2

BlockDue ==
    IF state.recording
    THEN Len(utt) <= now - unwrap(state.recording_start)
    ELSE TRUE

PeriodicTick == (IF state.recording THEN ~BlockDue ELSE TRUE) /\ Tick

PeriodicLock == BlockDue /\ CallbackLock

PeriodicProcess(samples, ok) ==
    /\ lock = "audio"
    /\ IF state.recording
       THEN \/ silence_detected(state, calculate_rms(samples))
            \/ /\ Len(utt) + GraceBlocks < MaxBlocks
               /\ now + GraceBlocks <= MaxTicks
       ELSE voice_detected(state, calculate_rms(samples))
               => now + GraceBlocks <= MaxTicks
    /\ CallbackProcess(samples, ok)

NextPeriodic ==
    \/ PeriodicTick
    \/ PeriodicLock
    \/ \E samples \in Blocks, ok \in BOOLEAN : PeriodicProcess(samples, ok)
    \/ ClientPoll

(* The clock runs, a block that is due is delivered and processed, and the *)
(* main loop keeps draining the queue.                                     *)
FairnessPeriodic ==
    /\ WF_vars(PeriodicTick)
    /\ WF_vars(PeriodicLock)
    /\ WF_vars(\E samples \in Blocks, ok \in BOOLEAN :
                  PeriodicProcess(samples, ok))
    /\ WF_vars(ClientPoll)

SpecPeriodic == InitCapture /\ [][NextPeriodic]_vars /\ FairnessPeriodic

(* The Capture Engine on a device that also reports stream errors.         *)
NextDevice ==
    \/ err_fn
    \/ NextCapture

SpecDevice == InitCapture /\ [][NextDevice]_vars

----------------------------------------------------------------------------
(* The history on its own: a container constructed with any limit, and     *)
(* add_to_history called with any entries, equal ones included.            *)

MaxLimit == 2       \* history_limit is no more than this
MaxAdded == 5       \* add_to_history is called no more often than this

Entries == {"a", "b"}

AddToHistory(entry) ==
    /\ Len(added) < MaxAdded
    /\ app' = add_to_history(app, entry)
    /\ added' = Append(added, entry)
    /\ UNCHANGED <<capture_vars, pending_transcription, pc, audio_path, text, stderr,
                   cancel_checked>>

InitHistory ==
    /\ InitAudio({AppConfig})
    /\ \E history_limit \in 0..MaxLimit : app = AppStateContainer_new(history_limit)
    /\ pending_transcription = None
    /\ pc = "draw"
    /\ audio_path = None
    /\ text = None
    /\ stderr = 0
    /\ cancel_checked = FALSE
    /\ added = <<>>

NextHistory == \E entry \in Entries : AddToHistory(entry)

SpecHistory == InitHistory /\ [][NextHistory]_vars

----------------------------------------------------------------------------
(* Vocabulary of the properties.                                           *)

(* The step is the callback's: it held the lock and drops it.              *)
Callback == lock = "audio" /\ lock' = "free"

(* The callback processes the block `samples` in this step.                *)
Processes(samples) ==
    Callback /\ \E ok \in BOOLEAN : CallbackProcess(samples, ok)

(* The step appends exactly the events `sent` to the queue.                *)
Sends(sent) == channel' = channel \o sent

Silent(self) == ~self.recording

(* Silent as reset leaves it: no buffer, no timer.                         *)
Reset(self) ==
    /\ ~self.recording
    /\ self.buffer = <<>>
    /\ self.silence_start = None
    /\ self.recording_start = None

(* Time since a timer was set, in tenths of a second.                      *)
Since(timer) == (now - timer[1]) * 10

RECURSIVE Flatten(_)
Flatten(blocks) ==
    IF blocks = <<>> THEN <<>> ELSE Head(blocks) \o Flatten(Tail(blocks))

Encoded(samples) == [i \in 1..Len(samples) |-> to_i16(samples[i])]

(* The grace period has run out and the recording is long enough (or not). *)
GraceExpired(samples) ==
    /\ Callback
    /\ state.recording
    /\ calculate_rms(samples) < state.silence_threshold
    /\ state.silence_start # None
    /\ Since(state.silence_start) >= state.silence_duration
    /\ state.recording_start # None

LongEnough == Since(state.recording_start) >= state.min_speech_duration

----------------------------------------------------------------------------
(* C1: whenever the Segmenter is Silent (recording = false), whatever      *)
(* calls of process_samples, stop_recording and cancel_recording came      *)
(* before, its utterance buffer is empty.                                  *)
C1_SilentBufferEmpty == Silent(state) => state.buffer = <<>>

(* The Segmenter is Silent again after an utterance was recorded and saved. *)
C1_Witness == Silent(state) /\ ended = "stopped" /\ state.buffer = <<>>

(* C2 as stated: every block appends one Level event, then at most one     *)
(* group: VoiceDetected then RecordingStarted, or one SilenceDetected, or   *)
(* one RecordingStopped.                                                   *)
C2_Groups ==
    { <<>>, <<VoiceDetected, RecordingStarted>>, <<SilenceDetected>> }
        \cup { <<RecordingStopped(p)>> : p \in Paths }

----------------------------------------------------------------------------
(* C3: a block processed while Silent with rms > voice_threshold makes the *)
(* Segmenter Recording with recording_start set, silence_start unset and   *)
(* the buffer exactly that block's samples, and sends VoiceDetected then   *)
(* RecordingStarted after the Level event; with rms <= voice_threshold the *)
(* Segmenter stays Silent, unchanged, and sends only the Level event.      *)
C3_VoiceOnset ==
    [][\A samples \in Blocks :
          Silent(state) /\ Processes(samples) =>
              LET rms == calculate_rms(samples)
              IN  IF rms > state.voice_threshold
                  THEN /\ state'.recording
                       /\ state'.recording_start = Some(now)
                       /\ state'.silence_start = None
                       /\ state'.buffer = samples
                       /\ Sends(<<Level(rms), VoiceDetected, RecordingStarted>>)
                  ELSE /\ state' = state
                       /\ Silent(state')
                       /\ Sends(<<Level(rms)>>)]_vars

(* Just after the onset: one loud block recorded, its three events queued. *)
C3_Witness ==
    /\ state.recording
    /\ utt = << <<-60>> >>
    /\ state.buffer = <<-60>>
    /\ state.recording_start = Some(now)
    /\ channel = <<Level(60), VoiceDetected, RecordingStarted>>

(* The step that finalizes: the Segmenter is reset and the utterance,      *)
(* this block included, is in the file that RecordingStopped names.        *)
C4_Stopped(samples) ==
    /\ Reset(state')
    /\ \E p \in Paths :
          /\ Sends(<<Level(calculate_rms(samples)), RecordingStopped(p)>>)
          /\ files'[p] = Some(Encoded(state.buffer \o samples))

(* The step whose save failed: the Segmenter is reset all the same.        *)
C4_SaveFailed(samples) ==
    /\ Reset(state')
    /\ Sends(<<Level(calculate_rms(samples)), Error>>)
    /\ files' = files

(* The step processes the fifth block of the worked example.               *)
C4_ExampleEnds == example_pos = 4 /\ example_pos' = 5

C5_Discard ==
    [][\A samples \in Blocks :
          GraceExpired(samples) /\ ~LongEnough /\ Processes(samples) =>
              /\ Reset(state')
              /\ Sends(<<Level(calculate_rms(samples))>>)
              /\ files' = files]_vars

(* An utterance was discarded as too short, with only a Level event sent.  *)
C5_Witness ==
    /\ ended = "discarded"
    /\ Reset(state)
    /\ Len(channel) = 1
    /\ channel[1].type = "Level"

----------------------------------------------------------------------------
(* C6: a recording is finalized or discarded only at a quiet block whose   *)
(* contiguous run of quiet blocks (rms < silence_threshold) began at least *)
(* silence_duration ago; a block with rms >= silence_threshold while       *)
(* Recording clears silence_start and keeps recording; and silence_start   *)
(* is always the beginning of the current quiet run, never of an earlier   *)
(* one.                                                                    *)
C6_ContiguousSilence ==
    [][/\ \A samples \in Blocks :
             state.recording /\ Processes(samples) =>
                /\ Silent(state') =>
                      /\ calculate_rms(samples) < state.silence_threshold
                      /\ quiet_since # None
                      /\ Since(quiet_since) >= state.silence_duration
                /\ calculate_rms(samples) >= state.silence_threshold =>
                      state'.recording /\ state'.silence_start = None
       /\ state'.recording => state'.silence_start = quiet_since']_vars

(* Loud, quiet, loud, quiet: the recording goes on and the grace timer     *)
(* was started anew at the second quiet block, later than the onset.       *)
C6_Witness ==
    /\ state.recording
    /\ utt = << <<-60>>, <<5>>, <<-60>>, <<5>> >>
    /\ state.silence_duration = 10
    /\ state.silence_start = Some(now)
    /\ state.recording_start # Some(now)

(* C7: the file named by a RecordingStopped holds, sample by sample and in *)
(* order, every block processed from the voice-onset block through the     *)
(* finalizing block, and nothing else.                                     *)
C7_WholeUtterance ==
    [][\A p \in Paths :
          /\ Len(channel') = Len(channel) + 2
          /\ channel'[Len(channel')] = RecordingStopped(p)
          =>
              \A samples \in Blocks :
                  Processes(samples) =>
                      /\ utt # <<>>
                      /\ files'[p] = Some(Encoded(Flatten(utt) \o samples))]_vars

(* A saved utterance of four blocks: loud, at the silence threshold, and   *)
(* two quiet blocks of the grace period.                                   *)
C7_Witness ==
    /\ ended = "stopped"
    /\ \E p \in Paths : files[p] = Some(<<-19660, 3276, 1638, 1638>>)

(* C8: a block with rms exactly voice_threshold while Silent leaves the    *)
(* Segmenter Silent and sends only Level; a block with rms exactly         *)
(* silence_threshold while Recording keeps it Recording with silence_start *)
(* cleared and sends only Level.                                           *)
C8_ThresholdTies ==
    [][\A samples \in Blocks :
          /\ /\ Callback
             /\ Silent(state)
             /\ calculate_rms(samples) = state.voice_threshold
             /\ Processes(samples)
             => Silent(state') /\ Sends(<<Level(calculate_rms(samples))>>)
          /\ /\ Callback
             /\ state.recording
             /\ calculate_rms(samples) = state.silence_threshold
             /\ Processes(samples)
             => /\ state'.recording
                /\ state'.silence_start = None
                /\ Sends(<<Level(calculate_rms(samples))>>)]_vars

(* A block exactly at the silence threshold came after a quiet block and   *)
(* cleared the grace timer.                                                *)
C8_Witness ==
    /\ state.recording
    /\ Len(utt) >= 2
    /\ utt[Len(utt)] = <<10>>
    /\ utt[Len(utt) - 1] = <<5>>
    /\ state.silence_start = None
    /\ channel = <<Level(10)>>

----------------------------------------------------------------------------
(* C9: AudioCapture::cancel_recording, in any Segmenter state, leaves the  *)
(* Segmenter Silent with an empty buffer and both timers unset and appends *)
(* no event to the queue (nor writes a file); and the buffer, which is     *)
(* what a later RecordingStopped saves, only ever holds the blocks         *)
(* processed since the latest onset, none from before a cancel.            *)
C9_Cancel ==
    [][/\ ClientCancel =>
             /\ Reset(state')
             /\ channel' = channel
             /\ files' = files
             /\ utt' = <<>>
       /\ state'.buffer = Flatten(utt')]_vars

(* A recording was cancelled right after its onset: the Segmenter is reset *)
(* and the queue holds the onset's events and nothing more.                *)
C9_Witness ==
    /\ ended = "cancelled"
    /\ Reset(state)
    /\ channel = <<Level(60), VoiceDetected, RecordingStarted>>

(* C10 as stated: the cancel key cancels exactly when the application      *)
(* state is Recording; in every other application state it changes neither *)
(* the application state nor the Segmenter.                                *)
C10_AsStated ==
    [][/\ CancelKeyCheck => (pc' = "cancel" <=> app.state = "Recording")
       /\ CancelKeyCancel /\ app.state # "Recording" =>
             app' = app /\ state' = state]_vars

----------------------------------------------------------------------------
(* C11 as stated: while the application state is Muted, draining an audio  *)
(* event of any kind leaves the state Muted and audio_level, current_text, *)
(* error_message and the pending transcription unchanged; and only the     *)
(* mute key takes the application out of Muted.                            *)
C11_AsStated ==
    [][app.state = "Muted" =>
          /\ PollEvent =>
                /\ app'.state = "Muted"
                /\ app'.audio_level = app.audio_level
                /\ app'.current_text = app.current_text
                /\ app'.error_message = app.error_message
                /\ pending_transcription' = pending_transcription
          /\ app'.state # "Muted" => HandleKey("m")]_vars

(* C12 as stated: error_message is set only if the application state is    *)
(* Idle.                                                                   *)
C12_AsStated == app.error_message # None => app.state = "Idle"

(* C13: after any calls of add_to_history under history_limit L (0 too),   *)
(* the history is no longer than L and holds exactly the min(n, L) entries *)
(* added last, the newest first, whatever their text.                      *)
C13_History ==
    LET n == Len(added)
        L == app.history_limit
        kept == IF n < L THEN n ELSE L
    IN  /\ Len(app.history) <= L
        /\ app.history = [i \in 1..kept |-> added[n - i + 1]]

(* Three entries were added under a limit of two, the first and the last   *)
(* with the same text: the history holds the last two, newest first.       *)
C13_Witness ==
    /\ app.history_limit = 2
    /\ added = <<"a", "b", "a">>
    /\ app.history = <<"a", "b">>

(* C14 as stated: every RecordingStopped dequeued while not Muted leads to *)
(* exactly one transcribe call on its artifact.  The loop transcribes only *)
(* the path held in pending_transcription, once per iteration, so the      *)
(* claim requires that an utterance accepted by the drain never replaces   *)
(* one that is still waiting for its transcription.                        *)
C14_AsStated ==
    [][/\ PollEvent
       /\ channel # <<>>
       /\ Head(channel).type = "RecordingStopped"
       /\ app.state # "Muted"
       => pending_transcription = None]_vars

(* C15: processing a pending utterance ends in Idle.  When transcribe      *)
(* fails, error_message is set and the history is as before.  When it      *)
(* succeeds the text is typed and put at the front of the history,         *)
(* current_text is empty and error_message unset.  Either way the next     *)
(* step, and only that one, asks for the deletion of the utterance's file, *)
(* and whether or not the deletion succeeds nothing of the orchestrator's  *)
(* state changes but the path it lets go of.                               *)
C15_Processing ==
    [][/\ (\E ok \in BOOLEAN : Transcribe(ok)) =>
             /\ audio_path' = pending_transcription
             /\ pending_transcription' = None
             /\ \/ /\ pc' = "typing"
                   /\ text' # None
                   /\ app'.state = "Typing"
                   /\ app'.current_text = unwrap(text')
                \/ /\ pc' = "cleanup"
                   /\ app'.state = "Idle"
                   /\ app'.error_message # None
                   /\ app'.history = app.history
       /\ TypeText =>
             /\ pc' = "cleanup"
             /\ audio_path' = audio_path
             /\ app'.state = "Idle"
             /\ app'.current_text = <<>>
             /\ app'.error_message = None
             /\ Len(app'.history) <= app.history_limit
             /\ app.history_limit > 0 =>
                   app'.history # <<>> /\ Head(app'.history) = unwrap(text)
       /\ (\E ok \in BOOLEAN : Cleanup(ok)) =>
             /\ app.state = "Idle"
             /\ app' = app
             /\ pending_transcription' = pending_transcription
             /\ pc' = "draw"
             /\ \A p \in Paths : p # unwrap(audio_path) => files'[p] = files[p]
             /\ files'[unwrap(audio_path)] \in {NoFile, files[unwrap(audio_path)]}
       /\ pc' = "cleanup" /\ pc # "cleanup" =>
             TypeText \/ \E ok \in BOOLEAN : Transcribe(ok)]_vars

(* An utterance was transcribed and typed: its text heads the history, the *)
(* application is Idle, and the file is about to be deleted.               *)
C15_Witness ==
    /\ pc = "cleanup"
    /\ app.state = "Idle"
    /\ app.history # <<>>
    /\ app.current_text = <<>>
    /\ app.error_message = None
    /\ files[unwrap(audio_path)] = Some(app.history[1])

(* C16: the drain takes the events one by one from the head of the queue   *)
(* and handles each as it takes it; it goes on until poll_event finds the  *)
(* queue empty, and only then does the loop leave the drain (for the       *)
(* transcription step or the top of the loop).  The audio thread appends   *)
(* at the tail only, and nothing else touches the queue: no event is lost, *)
(* duplicated or reordered.                                                *)
C16_Drain ==
    [][/\ PollEvent =>
             IF channel = <<>>
             THEN /\ pc' \in {"draw", "transcribe"}
                  /\ channel' = channel
                  /\ app' = app
                  /\ pending_transcription' = pending_transcription
             ELSE /\ pc' = "poll"
                  /\ channel' = Tail(channel)
                  /\ app' = handle_event(app, Head(channel))
       /\ pc = "poll" /\ pc' # "poll" => channel = <<>>
       /\ pc' = "transcribe" /\ pc # "transcribe" => PollEvent
       /\ Callback =>
             /\ Len(channel') > Len(channel)
             /\ SubSeq(channel', 1, Len(channel)) = channel
       /\ channel' # channel => PollEvent \/ Callback]_vars

(* Midway through a drain: of the onset's three events the Level and the   *)
(* VoiceDetected have been handled, the RecordingStarted is still queued.  *)
C16_Witness ==
    /\ pc = "poll"
    /\ channel = <<RecordingStarted>>
    /\ app.audio_level = 60
    /\ app.state = "Idle"

(* C17 as stated: whenever the device reports a stream error, an Error     *)
(* event is appended to the event queue.                                   *)
C17_AsStated == [][err_fn => Sends(<<Error>>)]_vars

(* The main thread is inside is_recording or cancel_recording exactly when *)
(* it holds the lock, never while the callback holds it; and the Segmenter *)
(* is never seen half updated: when Silent it has no buffer and no timers. *)
C18_Exclusive ==
    /\ lock = "main" <=> pc \in {"is_recording_locked", "cancel_locked"}
    /\ lock = "audio" => pc \notin {"is_recording_locked", "cancel_locked"}
    /\ Silent(state) => Reset(state)

(* C18: process_samples, cancel_recording and is_recording exclude each    *)
(* other on the Segmenter, and neither thread waits for the lock for ever: *)
(* a main thread that asks for the lock comes to hold it, and the lock is  *)
(* free again and again, so that the next callback can take it.            *)
C18_MutexNoDeadlock ==
    /\ []C18_Exclusive
    /\ [](pc \in {"is_recording", "cancel"} => <>(lock = "main"))
    /\ []<>(lock = "free")

(* The main thread holds the lock inside cancel_recording, having waited   *)
(* for it, while a recording is under way and events are queued.           *)
C18_Witness ==
    /\ pc = "cancel_locked"
    /\ lock = "main"
    /\ state.recording
    /\ channel # <<>>

(* C19: muting and unmuting never affect the Segmenter.  A mute key press  *)
(* changes nothing of the capture side; what a callback does to the        *)
(* Segmenter and what it enqueues is process_samples of the Segmenter's    *)
(* own state, the block, the timestamp and the outcome of the save, the    *)
(* same on an empty disk as on the actual one; and the Segmenter changes   *)
(* only in a callback or in the cancel key's cancel_recording.  So two     *)
(* runs fed the same blocks at the same times step the Segmenter alike     *)
(* wherever the mute presses fall.                                         *)
C19_MuteBlind ==
    [][/\ HandleKey("m") =>
             /\ app'.state # app.state
             /\ UNCHANGED <<state, channel, lock, now, files>>
       /\ Callback =>
             \E samples \in AppBlocks, ok \in BOOLEAN :
                LET r == process_samples(state, [p \in Paths |-> NoFile],
                                         samples, now, ok)
                IN  /\ state' = r.self
                    /\ Sends(r.sent)
       /\ state' # state => Callback \/ CancelKeyCancel
       /\ channel' # channel => Callback \/ PollEvent]_vars

(* The orchestrator is Muted and the Segmenter is in the middle of an      *)
(* utterance, two blocks into it.                                          *)
C19_Witness ==
    /\ app.state = "Muted"
    /\ state.recording
    /\ Len(state.buffer) >= 2
    /\ lock = "free"

(* C20: every finalized utterance is persisted under a name distinct from  *)
(* that of every other artifact not yet deleted: when a callback announces *)
(* RecordingStopped(p), no file was at p before it.  As the spec states    *)
(* it; save_wav names the file after the clock's second, so the second of  *)
(* two utterances finalized in one second is written over the first.       *)
C20_AsStated ==
    [][\A p \in Paths :
          /\ Callback
          /\ Len(channel') > Len(channel)
          /\ channel'[Len(channel')] = RecordingStopped(p)
          => files[p] = NoFile]_vars

(* The events a step appended to the queue.                                *)
SentNow == SubSeq(channel', Len(channel) + 1, Len(channel'))

(* recording_start is set exactly while Recording; silence_start is set    *)
(* only while Recording and only when the latest block was under the       *)
(* silence threshold.                                                      *)
C21_Timers ==
    /\ state.recording_start # None <=> state.recording
    /\ state.silence_start # None => state.recording /\ quiet_since # None

(* C21: in every reachable Segmenter state recording_start is set iff the  *)
(* Segmenter is Recording, and silence_start is set only while Recording   *)
(* and only if the latest processed block was under silence_threshold;     *)
(* SilenceDetected is sent exactly at the blocks where silence_start goes  *)
(* from unset to set, and silence_start is set by no other step.           *)
C21_TimersAndSilenceDetected ==
    /\ []C21_Timers
    /\ [][/\ Callback =>
                ((\E i \in 1..Len(SentNow) : SentNow[i] = SilenceDetected)
                 <=> (state.silence_start = None /\ state'.silence_start # None))
          /\ state.silence_start = None /\ state'.silence_start # None
                => Callback]_vars

(* The grace period has just begun: silence_start is set, the latest block *)
(* was quiet, and SilenceDetected is the last event in the queue.          *)
C21_Witness ==
    /\ state.recording
    /\ state.silence_start # None
    /\ quiet_since = state.silence_start
    /\ channel # <<>>
    /\ channel[Len(channel)] = SilenceDetected

(* C22: the Segmenter has no terminal state.  From Recording, with quiet   *)
(* blocks arriving and the clock advancing, it comes back to Silent, by    *)
(* finalizing or by discarding; and from Silent a block louder than        *)
(* voice_threshold starts a new recording.                                 *)
C22_NoTerminalState ==
    /\ state.recording ~> Silent(state)
    /\ [][\A samples \in Blocks :
             /\ Callback
             /\ Silent(state)
             /\ voice_detected(state, calculate_rms(samples))
             /\ Processes(samples)
             => state'.recording /\ state'.buffer = samples]_vars

(* A second recording is under way: it began two or more ticks in, after   *)
(* the grace period of an earlier one could have run out.                  *)
C22_Witness ==
    /\ state.recording
    /\ now >= 2 * GraceBlocks - 1
    /\ unwrap(state.recording_start) >= GraceBlocks
    /\ state.silence_start # None

(* C23: whenever min_speech_duration <= silence_duration the discard      *)
(* branch of process_samples is unreachable: every expiry of the grace     *)
(* period finalizes the utterance, with RecordingStopped or, the save      *)
(* failing, with Error, because the recording began no later than the      *)
(* silence did; an utterance is discarded as too short only under          *)
(* min_speech_duration > silence_duration.                                 *)
C23_DiscardUnreachable ==
    /\ [](state.silence_start # None =>
             /\ state.recording_start # None
             /\ unwrap(state.recording_start) <= unwrap(state.silence_start))
    /\ [](ended = "discarded" =>
             state.min_speech_duration > state.silence_duration)
    /\ [][\A samples \in Blocks :
             /\ GraceExpired(samples)
             /\ state.min_speech_duration <= state.silence_duration
             /\ Processes(samples)
             => /\ LongEnough
                /\ ended' \in {"stopped", "failed"}
                /\ channel'[Len(channel')].type \in {"RecordingStopped", "Error"}]_vars

(* The grace period ran out on a recording that lasted exactly the silence *)
(* duration, under a minimum speech duration that is positive and not      *)
(* greater: the utterance was saved.                                       *)
C23_Witness ==
    /\ ended = "stopped"
    /\ state.min_speech_duration > 0
    /\ state.min_speech_duration <= state.silence_duration
    /\ \E p \in Paths : files[p] # NoFile /\ Len(unwrap(files[p])) = 1

(* C24: at the start of every loop iteration, where the UI is drawn and    *)
(* keys are read, the application state is Idle, Recording or Muted and no *)
(* transcription is pending; Transcribing and Typing are entered and left  *)
(* inside one iteration, between the drain and the cleanup.                *)
C24_IterationStart ==
    /\ pc \in {"draw", "is_recording", "is_recording_locked",
               "cancel", "cancel_locked", "exit"} =>
          /\ app.state \in {"Idle", "Recording", "Muted"}
          /\ pending_transcription = None
    /\ app.state = "Transcribing" =>
          pc \in {"poll", "transcribe"} /\ pending_transcription # None
    /\ app.state = "Typing" => pc = "typing"

(* An iteration has just ended in which an utterance was transcribed and   *)
(* typed: the loop is back at the draw, Idle, with the text in history.    *)
C24_Witness ==
    /\ pc = "draw"
    /\ app.state = "Idle"
    /\ app.history # <<>>
    /\ audio_path = None
    /\ pending_transcription = None

(* C25: after a cancel key for which is_recording() returned true, the     *)
(* utterance that was in progress at the check is never transcribed or     *)
(* typed, whatever the callback does in between: in particular the         *)
(* callback does not save that utterance and enqueue its RecordingStopped  *)
(* between the check and the cancel_recording that follows.  As the spec   *)
(* states it; the two calls take the lock separately, and the callback can *)
(* finalize in between.                                                    *)
C25_AsStated ==
    [][cancel_checked /\ Callback =>
          \A i \in 1..Len(SentNow) : SentNow[i].type # "RecordingStopped"]_vars

(* C26: whenever the drain finds the queue empty and the application is   *)
(* not Muted, the application state agrees with the Segmenter: it is       *)
(* Recording only if the Segmenter is recording.  As the spec states it;   *)
(* a RecordingStarted enqueued before a cancel is drained after it and     *)
(* sets Recording over a Segmenter that is Silent.                         *)
C26_AsStated ==
    [][/\ PollEvent
       /\ channel = <<>>
       /\ app.state = "Recording"
       => state.recording]_vars

(* C27: no utterance artifact is leaked: for every RecordingStopped(p) in  *)
(* the queue, provided the loop keeps running and does not exit,           *)
(* cleanup_audio_file comes to be called on p.  As the spec states it; a   *)
(* RecordingStopped dequeued while Muted is dropped with its path, and so  *)
(* is one that another RecordingStopped follows in the same drain.         *)
C27_AsStated ==
    \A p \in 0..MaxAppTicks :
        (\E i \in 1..Len(channel) : channel[i] = RecordingStopped(p))
            ~> (pc = "exit" \/ (pc = "cleanup" /\ audio_path = Some(p)))

====
